---- MODULE Spec2Model ----
(***************************************************************************)
(* Model of the pegasus asset tools:                                       *)
(*   tools/openart_download_images.py  looks_like_image,                   *)
(*       extract_image_urls, build_output_path, download_image, main       *)
(*   tools/openart_batch.py            process_prompts                     *)
(*   tools/openart_client.py           write_metadata                      *)
(* Python strings are sequences of one-character strings, so that          *)
(* lower(), split(), startswith() and endswith() are computed.             *)
(***************************************************************************)
EXTENDS Integers, Sequences, FiniteSets, TLC

VARIABLES
    \* looks_like_image driver
    candidate, nparts, verdict, lpc,
    \* extract_image_urls driver
    payload, nnodes, urls, deduped, epc,
    \* openart_download_images.main
    metadata_files, max_per_file, disk, fileIdx, file_urls, index,
    attempts, log, dpc, runs,
    \* openart_batch.process_prompts
    prompt_list, delay, api_key, idx, events, bpc

looksVars == <<candidate, nparts, verdict, lpc>>
extractVars == <<payload, nnodes, urls, deduped, epc>>
downloadVars == <<metadata_files, max_per_file, disk, fileIdx, file_urls,
                  index, attempts, log, dpc, runs>>
batchVars == <<prompt_list, delay, api_key, idx, events, bpc>>
vars == <<looksVars, extractVars, downloadVars, batchVars>>

(***************************************************************************)
(* Bounds                                                                  *)
(***************************************************************************)
MaxParts == 4
MaxNodes == 4
MaxFiles == 2
MaxRuns == 2
MaxPrompts == 3

(***************************************************************************)
(* Python str operations                                                   *)
(***************************************************************************)
Range(s) == {s[i] : i \in 1..Len(s)}

\* str.lower() on one character (the letters the model's strings use)
LowerChar(c) ==
    CASE c = "H" -> "h" [] c = "T" -> "t" [] c = "P" -> "p" [] c = "S" -> "s"
      [] c = "N" -> "n" [] c = "G" -> "g" [] c = "J" -> "j" [] c = "X" -> "x"
      [] c = "B" -> "b" [] OTHER -> c

Lower(s) == [i \in 1..Len(s) |-> LowerChar(s[i])]

StartsWith(s, p) == Len(s) >= Len(p) /\ SubSeq(s, 1, Len(p)) = p

EndsWith(s, p) ==
    Len(s) >= Len(p) /\ SubSeq(s, Len(s) - Len(p) + 1, Len(s)) = p

\* faulty variant: splits at the last "?" (rsplit)
SplitLastHead(s, c) ==
    LET hits == {i \in 1..Len(s) : s[i] = c}
    IN  IF hits = {} THEN s
        ELSE SubSeq(s, 1, (CHOOSE i \in hits : \A j \in hits : i >= j) - 1)

\* s.split(c, 1)[0]: the part of s before the first c, all of s without one
SplitFirstHead(s, c) ==
    LET hits == {i \in 1..Len(s) : s[i] = c}
    IN  IF hits = {} THEN s
        ELSE SubSeq(s, 1, (CHOOSE i \in hits : \A j \in hits : i <= j) - 1)

PathPart(lowered) == SplitFirstHead(lowered, "?")

HTTP == <<"h", "t", "t", "p">>
EXT_PNG == <<".", "p", "n", "g">>
EXT_JPG == <<".", "j", "p", "g">>
EXT_JPEG == <<".", "j", "p", "e", "g">>
EXT_WEBP == <<".", "w", "e", "b", "p">>
Extensions == {EXT_PNG, EXT_JPG, EXT_JPEG, EXT_WEBP}

looks_like_image(url) ==
    LET lowered == Lower(url)
    IN  /\ StartsWith(lowered, HTTP)
        /\ \E ext \in Extensions : EndsWith(PathPart(lowered), ext)

(***************************************************************************)
(* Driver of looks_like_image: the argument is any concatenation of at     *)
(* most MaxParts pieces.                                                   *)
(***************************************************************************)
Pieces ==
    { HTTP, <<"H", "T", "T", "P">>,
      EXT_PNG, <<".", "P", "N", "G">>, EXT_JPG, EXT_JPEG, EXT_WEBP,
      <<".", "p", "h", "p">>, <<"?">>, <<"/", "a">>, <<"s", "e", "e", " ">> }


AppendPiece ==
    /\ lpc = "build"
    /\ nparts < MaxParts
    /\ \E p \in Pieces : candidate' = candidate \o p
    /\ nparts' = nparts + 1
    /\ UNCHANGED <<verdict, lpc>>
    /\ UNCHANGED <<extractVars, downloadVars, batchVars>>

CallLooksLikeImage ==
    /\ lpc = "build"
    /\ verdict' = looks_like_image(candidate)
    /\ lpc' = "done"
    /\ UNCHANGED <<candidate, nparts>>
    /\ UNCHANGED <<extractVars, downloadVars, batchVars>>

LooksNext == AppendPiece \/ CallLooksLikeImage


(***************************************************************************)
(* JSON values (json.loads output): str, int/float, bool, None, list, dict *)
(* A dict is its keys in insertion order and the values beside them.       *)
(***************************************************************************)
JStr(s) == [t |-> "str", s |-> s, keys |-> <<>>, kids |-> <<>>]
JPrim(t) == [t |-> t, s |-> <<>>, keys |-> <<>>, kids |-> <<>>]
JArr(items) == [t |-> "arr", s |-> <<>>, keys |-> <<>>, kids |-> items]
JObj(ks, vs) == [t |-> "obj", s |-> <<>>, keys |-> ks, kids |-> vs]

RECURSIVE Concat(_)
Concat(seqs) ==
    IF seqs = <<>> THEN <<>> ELSE Head(seqs) \o Concat(Tail(seqs))

KEY_URL == <<"u", "r", "l">>

\* faulty variant: takes any str under "url" without the predicate
UrlFieldUnchecked(value) ==
    LET hits == {i \in 1..Len(value.keys) : value.keys[i] = KEY_URL}
    IN  IF hits = {} THEN <<>>
        ELSE LET url_value == value.kids[CHOOSE i \in hits : TRUE]
             IN  IF url_value.t = "str" THEN <<url_value.s>> ELSE <<>>

\* faulty variant: leaves out the "url" check of lines 37-39
UrlFieldOmitted(value) == <<>>

\* value.get("url") when it is a str that looks like an image (lines 37-39)
UrlField(value) ==
    LET hits == {i \in 1..Len(value.keys) : value.keys[i] = KEY_URL}
    IN  IF hits = {} THEN <<>>
        ELSE LET url_value == value.kids[CHOOSE i \in hits : TRUE]
             IN  IF url_value.t = "str" /\ looks_like_image(url_value.s)
                 THEN <<url_value.s>>
                 ELSE <<>>

\* faulty variant: does not descend into a container inside a container
walk_flat(value) ==
    LET strs(vs) == Concat([i \in 1..Len(vs) |->
                        IF vs[i].t = "str" /\ looks_like_image(vs[i].s)
                        THEN <<vs[i].s>> ELSE <<>>])
    IN  IF value.t = "str"
        THEN IF looks_like_image(value.s) THEN <<value.s>> ELSE <<>>
        ELSE IF value.t = "obj" THEN UrlField(value) \o strs(value.kids)
        ELSE IF value.t = "arr" THEN strs(value.kids)
        ELSE <<>>

\* what one call of walk(value) appends to urls, in order
RECURSIVE walk(_)
walk(value) ==
    IF value.t = "str"
    THEN IF looks_like_image(value.s) THEN <<value.s>> ELSE <<>>
    ELSE IF value.t = "obj"
    THEN UrlField(value)
            \o Concat([i \in 1..Len(value.kids) |-> walk(value.kids[i])])
    ELSE IF value.t = "arr"
    THEN Concat([i \in 1..Len(value.kids) |-> walk(value.kids[i])])
    ELSE <<>>

\* faulty variant: keeps the last occurrence of each url instead of the first
DedupKeepLast(us) ==
    LET keep == {i \in 1..Len(us) : \A j \in (i + 1)..Len(us) : us[j] # us[i]}
        pick[n \in 0..Len(us)] ==
            IF n = 0 THEN <<>>
            ELSE IF n \in keep THEN Append(pick[n - 1], us[n]) ELSE pick[n - 1]
    IN  pick[Len(us)]

\* the loop of lines 49-55 from position i on
RECURSIVE DedupLoop(_, _, _, _)
DedupLoop(us, i, seen, out) ==
    IF i > Len(us) THEN out
    ELSE IF us[i] \in seen THEN DedupLoop(us, i + 1, seen, out)
    ELSE DedupLoop(us, i + 1, seen \cup {us[i]}, Append(out, us[i]))

Dedup(us) == DedupLoop(us, 1, {}, <<>>)

extract_image_urls(value) == Dedup(walk(value))

(***************************************************************************)
(* Driver of extract_image_urls: the argument is any JSON value of at most *)
(* MaxNodes nodes over the leaves and keys below.                          *)
(***************************************************************************)
IMG1 == <<"h", "t", "t", "p", ":", "/", "/", "x", "/", "a", ".", "p", "n", "g">>
IMG2 == <<"H", "T", "T", "P", "S", ":", "/", "/", "X", "/", "B", ".", "J", "P", "G",
          "?", "s">>
NOIMG == <<"s", "e", "e", " ", "h", "t", "t", "p", ":", "/", "/", "x", "/", "a",
           ".", "p", "n", "g">>
Leaves == {JStr(IMG1), JStr(IMG2), JStr(NOIMG),
           JPrim("num"), JPrim("bool"), JPrim("null")}
KEY_A == <<"a">>
Keys == {KEY_URL, KEY_A, IMG1}

Containers == {JArr(<<>>), JObj(<<>>, <<>>)}

\* the node d levels down the last-child path of tree
RECURSIVE LastAt(_, _)
LastAt(tree, d) ==
    IF d = 0 THEN tree ELSE LastAt(tree.kids[Len(tree.kids)], d - 1)

\* depth of the last-child path of tree
RECURSIVE LastDepth(_)
LastDepth(tree) ==
    IF tree.kids = <<>> THEN 0 ELSE 1 + LastDepth(tree.kids[Len(tree.kids)])

\* tree with node added (under key, in a dict) as the last member of the
\* container d levels down its last-child path
RECURSIVE AddAt(_, _, _, _)
AddAt(tree, d, key, node) ==
    IF d = 0
    THEN [tree EXCEPT !.kids = Append(@, node),
                      !.keys = IF tree.t = "obj" THEN Append(@, key) ELSE @]
    ELSE [tree EXCEPT !.kids[Len(tree.kids)] = AddAt(@, d - 1, key, node)]

\* the next member (in document order) of the JSON text being parsed
AddMember ==
    /\ epc = "start"
    /\ nnodes < MaxNodes
    /\ \E d \in 0..LastDepth(payload), node \in Leaves \cup Containers, key \in Keys :
        LET parent == LastAt(payload, d)
        IN  /\ parent.t \in {"arr", "obj"}
            /\ parent.t = "arr" => key = KEY_A
            /\ parent.t = "obj" => key \notin Range(parent.keys)
            /\ payload' = AddAt(payload, d, key, node)
    /\ nnodes' = nnodes + 1
    /\ UNCHANGED <<urls, deduped, epc>>
    /\ UNCHANGED <<looksVars, downloadVars, batchVars>>

CallExtract ==
    /\ epc = "start"
    /\ urls' = walk(payload)
    /\ deduped' = Dedup(urls')
    /\ epc' = "done"
    /\ UNCHANGED <<payload, nnodes>>
    /\ UNCHANGED <<looksVars, downloadVars, batchVars>>

ExtractNext == AddMember \/ CallExtract




(***************************************************************************)
(* openart_download_images: build_output_path, download_image, main        *)
(***************************************************************************)
Alpha == {"a", "b", "e", "g", "h", "j", "l", "m", "n", "p", "r", "s", "t", "u",
          "w", "x", "y", "B", "G", "H", "J", "N", "P", "S", "T", "X"}
Digits == <<"0", "1", "2", "3", "4", "5", "6", "7", "8", "9">>
SchemeChars == Alpha \cup Range(Digits) \cup {"+", "-", "."}

\* first position of a character of cs in s, Len(s) + 1 without one
FindAny(s, cs) ==
    LET hits == {i \in 1..Len(s) : s[i] \in cs}
    IN  IF hits = {} THEN Len(s) + 1
        ELSE CHOOSE i \in hits : \A j \in hits : i <= j

\* urllib.parse.urlsplit(url): [raises, path]; raises is the ValueError
\* ("Invalid IPv6 URL") for a netloc with one bracket and not the other
urlsplit(url) ==
    LET colon == FindAny(url, {":"})
        hasScheme == /\ colon <= Len(url) /\ colon > 1 /\ url[1] \in Alpha
                     /\ \A i \in 1..(colon - 1) : url[i] \in SchemeChars
        rest == IF hasScheme THEN SubSeq(url, colon + 1, Len(url)) ELSE url
        hasNetloc == StartsWith(rest, <<"/", "/">>)
        afterSlashes == SubSeq(rest, 3, Len(rest))
        netEnd == FindAny(afterSlashes, {"/", "?", "#"})
        netloc == IF hasNetloc THEN SubSeq(afterSlashes, 1, netEnd - 1) ELSE <<>>
        rest2 == IF hasNetloc THEN SubSeq(afterSlashes, netEnd, Len(afterSlashes))
                 ELSE rest
        noFragment == SplitFirstHead(rest2, "#")
    IN  [raises |-> ("[" \in Range(netloc)) # ("]" \in Range(netloc)),
         path |-> SplitFirstHead(noFragment, "?")]

\* pathlib.Path(path).name: the last component, "" without one
RECURSIVE PathParts(_)
PathParts(path) ==
    IF path = <<>> THEN <<>>
    ELSE LET cut == FindAny(path, {"/"})
             part == SubSeq(path, 1, cut - 1)
             more == PathParts(SubSeq(path, cut + 1, Len(path)))
         IN  IF part = <<>> \/ part = <<".">> THEN more ELSE <<part>> \o more

PathName(path) ==
    LET parts == PathParts(path)
    IN  IF parts = <<>> THEN <<>> ELSE parts[Len(parts)]

\* str(index) of the f-strings
RECURSIVE Str(_)
Str(n) ==
    IF n < 10 THEN <<Digits[n + 1]>> ELSE Str(n \div 10) \o <<Digits[(n % 10) + 1]>>

DOT_PNG == <<".", "p", "n", "g">>

\* build_output_path: [raises, path]; path is the file name inside
\* output_dir, files the names that exist there
build_output_path(files, stem, url, i) ==
    LET split == urlsplit(url)
        basename == PathName(split.path)
        name == IF basename = <<>> THEN stem \o <<"_">> \o Str(i) \o DOT_PNG
                ELSE basename
    IN  [raises |-> split.raises,
         path |-> IF name \in files THEN stem \o <<"_">> \o Str(i) \o <<"_">> \o name
                  ELSE name]

\* urls[: n] of Python
SliceTo(us, n) ==
    IF n >= 0 THEN SubSeq(us, 1, IF n < Len(us) THEN n ELSE Len(us))
    ELSE SubSeq(us, 1, Len(us) + n)

\* lines 144-145
Limit(us, limit) == IF limit.given THEN SliceTo(us, limit.n) ELSE us

UA == IMG1
UB == <<"h", "t", "t", "p", ":", "/", "/", "y", "/", "a", ".", "p", "n", "g">>
UN == <<"h", "t", "t", "p", ":", "/", "/", "a", ".", "p", "n", "g">>
UBAD == <<"h", "t", "t", "p", ":", "/", "/", "[", "a", ".", "p", "n", "g">>

FilePayloads ==
    { JArr(<<>>),
      JArr(<<JStr(UA), JStr(UB)>>),
      JArr(<<JStr(UN), JStr(UA)>>),
      JArr(<<JStr(UBAD), JStr(UA)>>) }
Stems == {<<"m">>, <<"n">>}
\* a metadata file: readable says whether read_text and json.loads succeed
MetadataFiles ==
    [stem : Stems, readable : {TRUE}, payload : FilePayloads]
        \cup [stem : Stems, readable : {FALSE}, payload : {JPrim("null")}]
Limits ==
    {[given |-> FALSE, n |-> 0]} \cup [given : {TRUE}, n : {-1, 0, 1, 2}]

SeqsUpTo(S, n) == UNION {[1..k -> S] : k \in 1..n}

\* leave the inner loop after its last url, else go on to the next url
AfterUrl ==
    IF index < Len(file_urls)
    THEN /\ index' = index + 1
         /\ UNCHANGED <<fileIdx, file_urls, dpc>>
    ELSE /\ fileIdx' = fileIdx + 1
         /\ file_urls' = <<>>
         /\ index' = 0
         /\ dpc' = "file"

\* lines 133-137: read_text or json.loads raises
ReadFails ==
    /\ dpc = "file"
    /\ fileIdx <= Len(metadata_files)
    /\ ~metadata_files[fileIdx].readable
    /\ log' = Append(log, [kind |-> "read_failed", file |-> fileIdx, url |-> <<>>])
    /\ fileIdx' = fileIdx + 1
    /\ UNCHANGED <<metadata_files, max_per_file, disk, file_urls, index,
                   attempts, dpc, runs>>
    /\ UNCHANGED <<looksVars, extractVars, batchVars>>

\* lines 139-142: no image URLs in the file
NoImages ==
    /\ dpc = "file"
    /\ fileIdx <= Len(metadata_files)
    /\ metadata_files[fileIdx].readable
    /\ extract_image_urls(metadata_files[fileIdx].payload) = <<>>
    /\ log' = Append(log, [kind |-> "no_images", file |-> fileIdx, url |-> <<>>])
    /\ fileIdx' = fileIdx + 1
    /\ UNCHANGED <<metadata_files, max_per_file, disk, file_urls, index,
                   attempts, dpc, runs>>
    /\ UNCHANGED <<looksVars, extractVars, batchVars>>

\* lines 139-147: the file's urls, limited, enter the inner loop
BeginFile ==
    /\ dpc = "file"
    /\ fileIdx <= Len(metadata_files)
    /\ metadata_files[fileIdx].readable
    /\ LET found == extract_image_urls(metadata_files[fileIdx].payload)
           limited == Limit(found, max_per_file)
       IN  /\ found # <<>>
           /\ IF limited = <<>>
              THEN /\ fileIdx' = fileIdx + 1
                   /\ UNCHANGED <<file_urls, index, dpc>>
              ELSE /\ file_urls' = limited
                   /\ index' = 1
                   /\ dpc' = "url"
                   /\ UNCHANGED fileIdx
    /\ UNCHANGED <<metadata_files, max_per_file, disk, attempts, log, runs>>
    /\ UNCHANGED <<looksVars, extractVars, batchVars>>

\* line 148: build_output_path raises outside the try of lines 149-153
BuildPathRaises ==
    /\ dpc = "url"
    /\ build_output_path(disk, metadata_files[fileIdx].stem,
                         file_urls[index], index).raises
    /\ dpc' = "crashed"
    /\ UNCHANGED <<metadata_files, max_per_file, disk, fileIdx, file_urls,
                   index, attempts, log, runs>>
    /\ UNCHANGED <<looksVars, extractVars, batchVars>>

\* lines 148-155: download_image returns; the destination was opened "wb"
DownloadSaved ==
    /\ dpc = "url"
    /\ LET built == build_output_path(disk, metadata_files[fileIdx].stem,
                                      file_urls[index], index)
       IN  /\ ~built.raises
           /\ attempts' = Append(attempts,
                 [file |-> fileIdx, url |-> file_urls[index], index |-> index,
                  destination |-> built.path, opened |-> TRUE,
                  existed |-> built.path \in disk])
           /\ disk' = disk \cup {built.path}
    /\ log' = Append(log, [kind |-> "saved", file |-> fileIdx,
                           url |-> file_urls[index]])
    /\ AfterUrl
    /\ UNCHANGED <<metadata_files, max_per_file, runs>>
    /\ UNCHANGED <<looksVars, extractVars, batchVars>>

\* lines 148-153: download_image raises, before the destination is opened
\* (request or status error) or after (the stream breaks)
DownloadFails ==
    /\ dpc = "url"
    /\ LET built == build_output_path(disk, metadata_files[fileIdx].stem,
                                      file_urls[index], index)
       IN  /\ ~built.raises
           /\ \E opened \in BOOLEAN :
                /\ attempts' = Append(attempts,
                      [file |-> fileIdx, url |-> file_urls[index], index |-> index,
                       destination |-> built.path, opened |-> opened,
                       existed |-> built.path \in disk])
                /\ disk' = IF opened THEN disk \cup {built.path} ELSE disk
    /\ log' = Append(log, [kind |-> "download_failed", file |-> fileIdx,
                           url |-> file_urls[index]])
    /\ AfterUrl
    /\ UNCHANGED <<metadata_files, max_per_file, runs>>
    /\ UNCHANGED <<looksVars, extractVars, batchVars>>

\* the outer loop of line 132 is exhausted
Finish ==
    /\ dpc = "file"
    /\ fileIdx > Len(metadata_files)
    /\ dpc' = "done"
    /\ UNCHANGED <<metadata_files, max_per_file, disk, fileIdx, file_urls,
                   index, attempts, log, runs>>
    /\ UNCHANGED <<looksVars, extractVars, batchVars>>

\* the tool is run again with the same arguments on the same output_dir
RunAgain ==
    /\ dpc \in {"done", "crashed"}
    /\ runs < MaxRuns
    /\ runs' = runs + 1
    /\ fileIdx' = 1
    /\ file_urls' = <<>>
    /\ index' = 0
    /\ attempts' = <<>>
    /\ log' = <<>>
    /\ dpc' = "file"
    /\ UNCHANGED <<metadata_files, max_per_file, disk>>
    /\ UNCHANGED <<looksVars, extractVars, batchVars>>

DownloadNext ==
    \/ ReadFails \/ NoImages \/ BeginFile \/ BuildPathRaises
    \/ DownloadSaved \/ DownloadFails \/ Finish \/ RunAgain

(***************************************************************************)
(* openart_batch.process_prompts, with perform_generation and              *)
(* openart_client.write_metadata                                           *)
(***************************************************************************)
Prompts == {"pegasus", "nebula"}
Delays == {0, 2}

Event(kind, i) == [kind |-> kind, idx |-> i]

\* the for loop of line 97 moves to the next prompt or ends
AfterPrompt ==
    IF idx < Len(prompt_list)
    THEN idx' = idx + 1 /\ UNCHANGED bpc
    ELSE UNCHANGED idx /\ bpc' = "done"

\* lines 88-90: no OPENART_API_KEY
MissingApiKey ==
    /\ bpc = "start"
    /\ ~api_key
    /\ bpc' = "exit"
    /\ UNCHANGED <<prompt_list, delay, api_key, idx, events>>
    /\ UNCHANGED <<looksVars, extractVars, downloadVars>>

\* lines 92-97: the session is set up and the loop entered
EnterLoop ==
    /\ bpc = "start"
    /\ api_key
    /\ IF prompt_list = <<>>
       THEN bpc' = "done" /\ UNCHANGED idx
       ELSE bpc' = "loop" /\ idx' = 1
    /\ UNCHANGED <<prompt_list, delay, api_key, events>>
    /\ UNCHANGED <<looksVars, extractVars, downloadVars>>

\* lines 98-102: session.post or raise_for_status raises; logged, continue
GenerationFails ==
    /\ bpc = "loop"
    /\ events' = events \o <<Event("post", idx), Event("failed", idx)>>
    /\ AfterPrompt
    /\ UNCHANGED <<prompt_list, delay, api_key>>
    /\ UNCHANGED <<looksVars, extractVars, downloadVars>>

\* lines 99-108: the response is saved, then the delay when one is due
ResponseSaved ==
    /\ bpc = "loop"
    /\ events' = events \o <<Event("post", idx), Event("saved", idx)>>
                    \o (IF delay > 0 /\ idx < Len(prompt_list)
                        THEN <<Event("sleep", idx)>> ELSE <<>>)
    /\ AfterPrompt
    /\ UNCHANGED <<prompt_list, delay, api_key>>
    /\ UNCHANGED <<looksVars, extractVars, downloadVars>>

\* line 104: write_metadata raises (response.json() on a body that is not
\* JSON, or the write) outside the try of lines 98-102
WriteMetadataRaises ==
    /\ bpc = "loop"
    /\ events' = Append(events, Event("post", idx))
    /\ bpc' = "crashed"
    /\ UNCHANGED <<prompt_list, delay, api_key, idx>>
    /\ UNCHANGED <<looksVars, extractVars, downloadVars>>

BatchNext ==
    \/ MissingApiKey \/ EnterLoop \/ GenerationFails
    \/ ResponseSaved \/ WriteMetadataRaises

InitLooks ==
    /\ candidate = <<>>
    /\ nparts = 0
    /\ verdict = FALSE
    /\ lpc = "build"
    /\ payload = JPrim("null")
    /\ nnodes = 0
    /\ urls = <<>>
    /\ deduped = <<>>
    /\ epc = "idle"
    /\ metadata_files = <<>>
    /\ max_per_file = [given |-> FALSE, n |-> 0]
    /\ disk = {}
    /\ fileIdx = 0
    /\ file_urls = <<>>
    /\ index = 0
    /\ attempts = <<>>
    /\ log = <<>>
    /\ dpc = "idle"
    /\ runs = 0
    /\ prompt_list = <<>>
    /\ delay = 0
    /\ api_key = FALSE
    /\ idx = 0
    /\ events = <<>>
    /\ bpc = "idle"

InitExtract ==
    /\ payload \in Leaves \cup Containers
    /\ nnodes = 1
    /\ urls = <<>>
    /\ deduped = <<>>
    /\ epc = "start"
    /\ candidate = <<>>
    /\ nparts = 0
    /\ verdict = FALSE
    /\ lpc = "idle"
    /\ metadata_files = <<>>
    /\ max_per_file = [given |-> FALSE, n |-> 0]
    /\ disk = {}
    /\ fileIdx = 0
    /\ file_urls = <<>>
    /\ index = 0
    /\ attempts = <<>>
    /\ log = <<>>
    /\ dpc = "idle"
    /\ runs = 0
    /\ prompt_list = <<>>
    /\ delay = 0
    /\ api_key = FALSE
    /\ idx = 0
    /\ events = <<>>
    /\ bpc = "idle"

InitDownload ==
    /\ metadata_files \in SeqsUpTo(MetadataFiles, MaxFiles)
    /\ max_per_file \in Limits
    /\ disk = {}
    /\ fileIdx = 1
    /\ file_urls = <<>>
    /\ index = 0
    /\ attempts = <<>>
    /\ log = <<>>
    /\ dpc = "file"
    /\ runs = 1
    /\ candidate = <<>>
    /\ nparts = 0
    /\ verdict = FALSE
    /\ lpc = "idle"
    /\ payload = JPrim("null")
    /\ nnodes = 0
    /\ urls = <<>>
    /\ deduped = <<>>
    /\ epc = "idle"
    /\ prompt_list = <<>>
    /\ delay = 0
    /\ api_key = FALSE
    /\ idx = 0
    /\ events = <<>>
    /\ bpc = "idle"

InitBatch ==
    /\ prompt_list \in UNION {[1..k -> Prompts] : k \in 0..MaxPrompts}
    /\ delay \in Delays
    /\ api_key \in BOOLEAN
    /\ idx = 0
    /\ events = <<>>
    /\ bpc = "start"
    /\ candidate = <<>>
    /\ nparts = 0
    /\ verdict = FALSE
    /\ lpc = "idle"
    /\ payload = JPrim("null")
    /\ nnodes = 0
    /\ urls = <<>>
    /\ deduped = <<>>
    /\ epc = "idle"
    /\ metadata_files = <<>>
    /\ max_per_file = [given |-> FALSE, n |-> 0]
    /\ disk = {}
    /\ fileIdx = 0
    /\ file_urls = <<>>
    /\ index = 0
    /\ attempts = <<>>
    /\ log = <<>>
    /\ dpc = "idle"
    /\ runs = 0

SpecLooks == InitLooks /\ [][LooksNext]_vars

SpecExtract == InitExtract /\ [][ExtractNext]_vars

SpecDownload == InitDownload /\ [][DownloadNext]_vars

SpecBatch == InitBatch /\ [][BatchNext]_vars

(***************************************************************************)
(* Claims about looks_like_image (SpecLooks)                               *)
(***************************************************************************)
\* first position of c in s, Len(s) + 1 without one
FirstPos(s, c) ==
    IF \E i \in 1..Len(s) : s[i] = c
    THEN CHOOSE i \in 1..Len(s) : s[i] = c /\ \A j \in 1..(i - 1) : s[j] # c
    ELSE Len(s) + 1

\* s[1..n] ends with ext, position by position
EndsAt(s, n, ext) ==
    /\ Len(ext) <= n
    /\ \A k \in 1..Len(ext) : s[n - Len(ext) + k] = ext[k]

ImageByDefinition(s) ==
    LET lowered == Lower(s)
        q == FirstPos(lowered, "?")
    IN  /\ Len(lowered) >= 4
        /\ lowered[1] = "h" /\ lowered[2] = "t"
        /\ lowered[3] = "t" /\ lowered[4] = "p"
        /\ \E ext \in Extensions : EndsAt(lowered, q - 1, ext)

\* C4: looks_like_image(s) is true exactly when the lower-cased s begins
\* with "http" and the part of it before its first "?" ends with .png, .jpg,
\* .jpeg or .webp; an extension only inside the query string does not
\* qualify, nor does a string that contains a qualifying URL after a prefix.
C4_LooksLikeImageExact ==
    lpc = "done" =>
        /\ verdict = ImageByDefinition(candidate)
        /\ (\A ext \in Extensions :
                ~EndsAt(Lower(candidate), FirstPos(Lower(candidate), "?") - 1, ext))
                => ~verdict
        /\ ~StartsWith(Lower(candidate), HTTP) => ~verdict

\* "http.php?.png" was tested and rejected
C4_Witness ==
    /\ lpc = "done"
    /\ candidate = HTTP \o <<".", "p", "h", "p">> \o <<"?">> \o EXT_PNG
    /\ verdict = FALSE

(***************************************************************************)
(* Claims about extract_image_urls (SpecExtract)                           *)
(***************************************************************************)
\* the strings that are values of the tree (dict values, list items, root)
RECURSIVE StringValues(_)
StringValues(tree) ==
    IF tree.t = "str" THEN {tree.s}
    ELSE UNION {StringValues(tree.kids[i]) : i \in 1..Len(tree.kids)}

FirstIndex(us, u) == CHOOSE i \in 1..Len(us) : us[i] = u /\ \A j \in 1..(i - 1) : us[j] # u

\* C1: the returned list holds no string twice, holds exactly the strings of
\* the raw walk sequence urls, and orders them by their first occurrence in
\* it; a URL under "url" and under another key of one object is returned once.
C1_DedupFirstOccurrence ==
    epc = "done" =>
        /\ \A i, j \in 1..Len(deduped) : deduped[i] = deduped[j] => i = j
        /\ Range(deduped) = Range(urls)
        /\ \A i, j \in 1..Len(deduped) :
              i < j => FirstIndex(urls, deduped[i]) < FirstIndex(urls, deduped[j])

\* {"url": IMG1, "a": IMG1}: three raw occurrences, one result
C1_Witness ==
    /\ epc = "done"
    /\ payload = JObj(<<KEY_URL, KEY_A>>, <<JStr(IMG1), JStr(IMG1)>>)
    /\ Len(urls) = 3
    /\ deduped = <<IMG1>>

\* C2: every returned string satisfies looks_like_image and is a string
\* value of the input (not a key, number, boolean or null); an input
\* without string values yields the empty list.
C2_OnlyImageStringValues ==
    epc = "done" =>
        /\ \A i \in 1..Len(deduped) :
              looks_like_image(deduped[i]) /\ deduped[i] \in StringValues(payload)
        /\ StringValues(payload) = {} => deduped = <<>>

\* {"url": NOIMG, <key that looks like an image>: 1.0} yields nothing
C2_Witness ==
    /\ epc = "done"
    /\ payload = JObj(<<KEY_URL, IMG1>>, <<JStr(NOIMG), JPrim("num")>>)
    /\ deduped = <<>>

\* C3: every string value at any depth that satisfies looks_like_image is in
\* the returned list.
C3_FullTraversal ==
    epc = "done" =>
        \A s \in StringValues(payload) :
            looks_like_image(s) => s \in Range(deduped)

\* [{"a": [IMG2]}]: list of dict of list
C3_Witness ==
    /\ epc = "done"
    /\ payload = JArr(<<JObj(<<KEY_A>>, <<JArr(<<JStr(IMG2)>>)>>)>>)
    /\ deduped = <<IMG2>>

\* a dict whose values are distinct strings that look like images
DistinctImageObject(value) ==
    /\ value.t = "obj"
    /\ value.kids # <<>>
    /\ \A i \in 1..Len(value.kids) :
          value.kids[i].t = "str" /\ looks_like_image(value.kids[i].s)
    /\ \A i, j \in 1..Len(value.kids) :
          value.kids[i].s = value.kids[j].s => i = j

ValuesInKeyOrder(value) == [i \in 1..Len(value.kids) |-> value.kids[i].s]

\* C5 as stated: such a dict's values are returned in key order whatever the
\* key names are.
C5_KeyOrderAnyNames ==
    (epc = "done" /\ DistinctImageObject(payload)) =>
        deduped = ValuesInKeyOrder(payload)

\* C5 amended: the value under "url", when there is one, comes first, and
\* the remaining values follow in key order.
C5_UrlFirstThenKeyOrder ==
    (epc = "done" /\ DistinctImageObject(payload)) =>
        LET vs == ValuesInKeyOrder(payload)
            u == {i \in 1..Len(vs) : payload.keys[i] = KEY_URL}
        IN  IF u = {} THEN deduped = vs
            ELSE LET k == CHOOSE i \in u : TRUE
                 IN  deduped = <<vs[k]>> \o SubSeq(vs, 1, k - 1)
                                  \o SubSeq(vs, k + 1, Len(vs))

\* {"a": IMG1, "url": IMG2}
C5_Witness ==
    /\ epc = "done"
    /\ payload = JObj(<<KEY_A, KEY_URL>>, <<JStr(IMG1), JStr(IMG2)>>)
    /\ deduped = <<IMG2, IMG1>>

(***************************************************************************)
(* Claims about openart_download_images.main (SpecDownload)                *)
(***************************************************************************)
\* the urls main is to attempt for file f of this run
Listed(f) ==
    IF metadata_files[f].readable
    THEN Limit(extract_image_urls(metadata_files[f].payload), max_per_file)
    ELSE <<>>

\* the urls of the download attempts made for file f, in order
RECURSIVE AttemptedFrom(_, _)
AttemptedFrom(f, i) ==
    IF i > Len(attempts) THEN <<>>
    ELSE (IF attempts[i].file = f THEN <<attempts[i].url>> ELSE <<>>)
            \o AttemptedFrom(f, i + 1)

Attempted(f) == AttemptedFrom(f, 1)

\* C6: no failure in one metadata file or one URL aborts the batch: the run
\* never ends in an uncaught exception, and when it ends every listed URL of
\* every file has had its download attempt.
C6_NoFailureAbortsBatch ==
    /\ dpc # "crashed"
    /\ dpc = "done" =>
          \A f \in 1..Len(metadata_files) : Attempted(f) = Listed(f)

\* the name build_output_path starts from: the basename, else the fallback
FirstChoice(a) ==
    LET basename == PathName(urlsplit(a.url).path)
    IN  IF basename = <<>>
        THEN metadata_files[a.file].stem \o <<"_">> \o Str(a.index) \o DOT_PNG
        ELSE basename

\* C7: an image is written to the URL's basename (or the fallback name), or,
\* when that name exists, to a path that does not yet exist: no download
\* opens an existing file for writing.
C7_NoExistingFileOverwritten ==
    \A i \in 1..Len(attempts) :
        /\ attempts[i].destination # FirstChoice(attempts[i])
              => FirstChoice(attempts[i]) \in disk
        /\ attempts[i].opened => ~attempts[i].existed

\* C10: with --max-per-file N (N a count, N >= 0) each file has at most N
\* attempts, for the first N of its extracted urls in order; without the
\* option, for all of them.
C10_MaxPerFile ==
    (dpc \in {"done", "crashed"} /\ max_per_file.n >= 0) =>
        \A f \in 1..Len(metadata_files) :
            LET found == IF metadata_files[f].readable
                         THEN extract_image_urls(metadata_files[f].payload)
                         ELSE <<>>
                n == max_per_file.n
            IN  IF max_per_file.given
                THEN /\ Len(Attempted(f)) <= n
                     /\ Attempted(f) =
                            SubSeq(found, 1, IF n < Len(found) THEN n ELSE Len(found))
                ELSE Attempted(f) = found

(***************************************************************************)
(* Claims about openart_batch.process_prompts (SpecBatch)                  *)
(***************************************************************************)
Posts(i) == {k \in 1..Len(events) : events[k].kind = "post" /\ events[k].idx = i}
PostPositions == {k \in 1..Len(events) : events[k].kind = "post"}
SleepsBetween(a, b) ==
    Cardinality({k \in (a + 1)..(b - 1) : events[k].kind = "sleep"})

\* C8: skip and log: when process_prompts ends, every prompt of the list was
\* submitted exactly once, whatever failed for the prompts before it, and no
\* prompt is ever submitted twice.
C8_SkipAndLog ==
    /\ \A i \in 1..Len(prompt_list) : Cardinality(Posts(i)) <= 1
    /\ (api_key /\ bpc \in {"done", "crashed"}) =>
          \A i \in 1..Len(prompt_list) : Cardinality(Posts(i)) = 1

\* C9: with a delay > 0 there is exactly one wait between two consecutive
\* requests, whether the earlier one succeeded or failed, and none after
\* the last prompt.
C9_DelayBetweenRequests ==
    delay > 0 =>
        /\ \A a, b \in PostPositions :
              (a < b /\ \A k \in PostPositions : ~(a < k /\ k < b))
                  => SleepsBetween(a, b) = 1
        /\ \A k \in 1..Len(events) :
              events[k].kind = "sleep" => events[k].idx < Len(prompt_list)

====
